---- MODULE Spec2Model ----
(***************************************************************************)
(* A model of eRPC's Rpc object (src/rpc_impl/rpc.cc): construction and    *)
(* its unwinding, session burial, and the session-management drain that    *)
(* runs against the Nexus thread's appends to the Rpc's hook.              *)
(*                                                                         *)
(* Three specifications share the module, one per part of the object:     *)
(*   SpecDrain, SpecGuard  handle_session_management and the Nexus appends *)
(*   SpecCtor              Rpc::Rpc on two threads against one Nexus       *)
(*   SpecBury              bury_session and the session table              *)
(* assert() is modelled as compiled in: a failed assertion ends the        *)
(* process, recorded in the variable fatal.                                *)
(***************************************************************************)
EXTENDS Integers, Sequences, FiniteSets

VARIABLES
  \* ---- the hook sm_hook and the two threads that touch it
  session_mgmt_ev_counter,  \* sm_hook.session_mgmt_ev_counter
  session_mgmt_pkt_list,    \* sm_hook.session_mgmt_pkt_list, a sequence of packets
  session_mgmt_mutex,       \* who holds sm_hook.session_mgmt_mutex: "free", "rpc", "nexus"
  rpc_pc,                   \* where the Rpc thread is in handle_session_management
  cursor,                   \* the range-for's position in session_mgmt_pkt_list
  nexus_pc,                 \* where the Nexus thread is in its append
  calls,                    \* history: the handler calls made, in order
  freed,                    \* history: ids of the packets passed to free()
  drained,                  \* history: ids handled by the drain in progress (or the last one)
  appended,                 \* history: number of packets the Nexus has pushed
  fatal,                    \* "none", or the assertion that ended the process
  \* ---- Rpc::Rpc on each constructing thread, and the Nexus's registry
  uid,                      \* getuid() of the process
  ctor_pc,                  \* per thread: where its constructor call is
  args,                     \* per thread: the constructor's arguments ("none" before the call)
  transport,                \* per thread: the Transport_ object: "none", "partial", "ready"
  huge_alloc,               \* per thread: the HugeAllocator: "none", "live", "deleted"
  chunks,                   \* per thread: regions registered through reg_mr_func and not deregistered
  reg_hooks,                \* the threads whose sm_hook the Nexus has registered
  thrown,                   \* per thread: the exception that left the constructor, or "none"
  failed_at,                \* history, per thread: the step that threw
  saw_registered,           \* history, per thread: app_tid_exists() was called and returned true
  reg_calls,                \* history, per thread: calls of reg_mr_func
  looked_up,                \* history, per thread: nexus->app_tid_exists() was called
  \* ---- the session table of one Rpc and the Session objects
  session_vec,              \* the table: a sequence of Session pointers, "nullptr" for an empty slot
  sess,                     \* per pointer: the Session object it points to, if any
  at_thrown,                \* session_vec.at() has thrown std::out_of_range
  buried,                   \* history: the sessions deleted by bury_session, as they were
  last_call,                \* history: the last call made on the session table and its argument
  \* ---- Rpc::~Rpc on each thread's Rpc
  dtor_pc,                  \* per thread: the number of steps of the destructor that have run
  dereg_dead,               \* history, per thread: a region was deregistered after the transport was deleted
  discarded,                \* history: the table slots the destructor's loop went over
  \* ---- Rpc::generate_start_seq on each thread's Rpc
  slow_rand,                \* per thread: the number of values drawn from the Rpc's slow_rand
  rand_drawn,               \* history, per thread: the value slow_rand.next_u64() returned last
  seq_ret                   \* per thread: the value generate_start_seq() returned last

hookVars == <<session_mgmt_ev_counter, session_mgmt_pkt_list, session_mgmt_mutex,
              rpc_pc, cursor, nexus_pc, calls, freed, drained, appended>>

ctorVars == <<uid, ctor_pc, args, transport, huge_alloc, chunks, reg_hooks, thrown,
              failed_at, saw_registered, reg_calls, looked_up>>

buryVars == <<session_vec, sess, at_thrown, buried, last_call>>

dtorVars == <<dtor_pc, dereg_dead, discarded>>

seqVars == <<slow_rand, rand_drawn, seq_ret>>

vars == <<hookVars, fatal, ctorVars, buryVars, dtorVars, seqVars>>

----------------------------------------------------------------------------
(* Bounds *)

\* Packets the Nexus appends in one run of SpecDrain.
MaxPkts == 5

\* Packets the Nexus appends in one run of SpecGuard (every packet shape).
MaxGuardPkts == 1

----------------------------------------------------------------------------
(* The Rpc's own identity and the packets *)

\* nexus->hostname of the Rpc that drains.
OwnHostname == "self-host"

\* app_tid of the Rpc that drains.
OwnAppTid == 3

Hostnames == {"self-host", "other-host"}

AppTids == {3, 7}

\* The four kinds of SessionMgmtPktType.
PktTypes == {"kConnectReq", "kConnectResp", "kDisconnectReq", "kDisconnectResp"}

\* A pkt_type value outside the enumeration.
kInvalidPktType == "kInvalid"

Identities == [hostname : Hostnames, app_tid : AppTids]

\* Every packet content the Nexus can deliver.
AllShapes == [pkt_type : PktTypes \cup {kInvalidPktType},
              client : Identities, server : Identities]

Own == [hostname |-> OwnHostname, app_tid |-> OwnAppTid]

Other == [hostname |-> "other-host", app_tid |-> 7]

\* A few packet contents: the four kinds as a well-behaved peer sends them, a
\* request that names this Rpc as its client, and a kind outside the enumeration.
FewShapes ==
  { [pkt_type |-> "kConnectReq", client |-> Other, server |-> Own],
    [pkt_type |-> "kConnectResp", client |-> Own, server |-> Other],
    [pkt_type |-> "kDisconnectReq", client |-> Other, server |-> Own],
    [pkt_type |-> "kDisconnectResp", client |-> Own, server |-> Other],
    [pkt_type |-> "kConnectReq", client |-> Own, server |-> Other],
    [pkt_type |-> kInvalidPktType, client |-> Other, server |-> Other] }

Packet(id, shape) ==
  [id |-> id, pkt_type |-> shape.pkt_type, client |-> shape.client, server |-> shape.server]

session_mgmt_is_pkt_type_req(pkt_type) ==
  pkt_type \in {"kConnectReq", "kDisconnectReq"}

\* SenderIsThisRpc with the client block compared for every kind of packet.
SenderIsThisRpc_ClientBlockOnly(sm_pkt) ==
  sm_pkt.client.hostname = OwnHostname /\ sm_pkt.client.app_tid = OwnAppTid

\* The two assertions of the loop body: the sender cannot be this Rpc.
SenderIsThisRpc(sm_pkt) ==
  IF session_mgmt_is_pkt_type_req(sm_pkt.pkt_type)
    THEN sm_pkt.client.hostname = OwnHostname /\ sm_pkt.client.app_tid = OwnAppTid
    ELSE sm_pkt.server.hostname = OwnHostname /\ sm_pkt.server.app_tid = OwnAppTid

\* Handler with the two disconnect cases exchanged.
Handler_DisconnectSwapped(pkt_type) ==
  CASE pkt_type = "kConnectReq" -> "handle_session_connect_req"
    [] pkt_type = "kConnectResp" -> "handle_session_connect_resp"
    [] pkt_type = "kDisconnectReq" -> "handle_session_disconnect_resp"
    [] pkt_type = "kDisconnectResp" -> "handle_session_disconnect_req"
    [] OTHER -> "none"

\* The switch on pkt_type: the handler called, or "none" for the default case.
Handler(pkt_type) ==
  CASE pkt_type = "kConnectReq" -> "handle_session_connect_req"
    [] pkt_type = "kConnectResp" -> "handle_session_connect_resp"
    [] pkt_type = "kDisconnectReq" -> "handle_session_disconnect_req"
    [] pkt_type = "kDisconnectResp" -> "handle_session_disconnect_resp"
    [] OTHER -> "none"

----------------------------------------------------------------------------
(* The Nexus thread: lock the hook, push the packet, count it, unlock *)

NexusLock ==
  /\ fatal = "none"
  /\ nexus_pc = "idle"
  /\ session_mgmt_mutex = "free"
  /\ session_mgmt_mutex' = "nexus"
  /\ nexus_pc' = "push"
  /\ UNCHANGED <<ctorVars, buryVars, dtorVars, seqVars>>
  /\ UNCHANGED <<session_mgmt_ev_counter, session_mgmt_pkt_list, rpc_pc, cursor,
                 calls, freed, drained, appended, fatal>>

NexusPush(shapes, max) ==
  /\ fatal = "none"
  /\ nexus_pc = "push"
  /\ appended < max
  /\ \E shape \in shapes :
       session_mgmt_pkt_list' =
         Append(session_mgmt_pkt_list, Packet(appended + 1, shape))
  /\ appended' = appended + 1
  /\ nexus_pc' = "count"
  /\ UNCHANGED <<ctorVars, buryVars, dtorVars, seqVars>>
  /\ UNCHANGED <<session_mgmt_ev_counter, session_mgmt_mutex, rpc_pc, cursor,
                 calls, freed, drained, fatal>>

NexusCount ==
  /\ fatal = "none"
  /\ nexus_pc = "count"
  /\ session_mgmt_ev_counter' = session_mgmt_ev_counter + 1
  /\ nexus_pc' = "unlock"
  /\ UNCHANGED <<ctorVars, buryVars, dtorVars, seqVars>>
  /\ UNCHANGED <<session_mgmt_pkt_list, session_mgmt_mutex, rpc_pc, cursor,
                 calls, freed, drained, appended, fatal>>

NexusUnlock ==
  /\ fatal = "none"
  /\ nexus_pc = "unlock"
  /\ session_mgmt_mutex' = "free"
  /\ nexus_pc' = "idle"
  /\ UNCHANGED <<ctorVars, buryVars, dtorVars, seqVars>>
  /\ UNCHANGED <<session_mgmt_ev_counter, session_mgmt_pkt_list, rpc_pc, cursor,
                 calls, freed, drained, appended, fatal>>

----------------------------------------------------------------------------
(* Rpc::handle_session_management, one action per step *)

\* HSM_Assert without the assertion: the function goes on to the lock.
HSM_Assert_NoAssert ==
  /\ fatal = "none"
  /\ rpc_pc = "idle"
  /\ rpc_pc' = "lock"
  /\ UNCHANGED <<ctorVars, buryVars, dtorVars, seqVars>>
  /\ UNCHANGED <<session_mgmt_ev_counter, session_mgmt_pkt_list, session_mgmt_mutex,
                 cursor, nexus_pc, calls, freed, drained, appended, fatal>>

\* assert(sm_hook.session_mgmt_ev_counter > 0), read without the lock.
HSM_Assert ==
  /\ fatal = "none"
  /\ rpc_pc = "idle"
  /\ IF session_mgmt_ev_counter > 0
       THEN rpc_pc' = "lock" /\ fatal' = fatal
       ELSE rpc_pc' = rpc_pc /\ fatal' = "ev_counter"
  /\ UNCHANGED <<ctorVars, buryVars, dtorVars, seqVars>>
  /\ UNCHANGED <<session_mgmt_ev_counter, session_mgmt_pkt_list, session_mgmt_mutex,
                 cursor, nexus_pc, calls, freed, drained, appended>>

\* HSM_Lock without the lock: the loop starts whoever holds the mutex.
HSM_Lock_NoMutex ==
  /\ fatal = "none"
  /\ rpc_pc = "lock"
  /\ rpc_pc' = "loop"
  /\ cursor' = 1
  /\ drained' = <<>>
  /\ UNCHANGED <<ctorVars, buryVars, dtorVars, seqVars>>
  /\ UNCHANGED <<session_mgmt_ev_counter, session_mgmt_pkt_list, session_mgmt_mutex,
                 nexus_pc, calls, freed, appended, fatal>>

\* sm_hook.session_mgmt_mutex.lock(), then the loop starts at the list's head.
HSM_Lock ==
  /\ fatal = "none"
  /\ rpc_pc = "lock"
  /\ session_mgmt_mutex = "free"
  /\ session_mgmt_mutex' = "rpc"
  /\ rpc_pc' = "loop"
  /\ cursor' = 1
  /\ drained' = <<>>
  /\ UNCHANGED <<ctorVars, buryVars, dtorVars, seqVars>>
  /\ UNCHANGED <<session_mgmt_ev_counter, session_mgmt_pkt_list, nexus_pc,
                 calls, freed, appended, fatal>>

\* HSM_Iter walking the list from its tail.
HSM_Iter_FromTail ==
  /\ fatal = "none"
  /\ rpc_pc = "loop"
  /\ cursor <= Len(session_mgmt_pkt_list)
  /\ LET sm_pkt == session_mgmt_pkt_list[Len(session_mgmt_pkt_list) + 1 - cursor] IN
       IF SenderIsThisRpc(sm_pkt)
         THEN /\ fatal' = "sender_is_this_rpc"
              /\ UNCHANGED <<cursor, calls, freed, drained>>
         ELSE IF Handler(sm_pkt.pkt_type) = "none"
           THEN /\ fatal' = "pkt_type"
                /\ UNCHANGED <<cursor, calls, freed, drained>>
           ELSE /\ calls' = Append(calls, [handler |-> Handler(sm_pkt.pkt_type),
                                           sm_pkt |-> sm_pkt])
                /\ freed' = freed \cup {sm_pkt.id}
                /\ drained' = Append(drained, sm_pkt.id)
                /\ cursor' = cursor + 1
                /\ fatal' = fatal
  /\ UNCHANGED <<ctorVars, buryVars, dtorVars, seqVars>>
  /\ UNCHANGED <<session_mgmt_ev_counter, session_mgmt_pkt_list, session_mgmt_mutex,
                 rpc_pc, nexus_pc, appended>>

\* One iteration of the range-for: the two assertions, the switch, free().
HSM_Iter ==
  /\ fatal = "none"
  /\ rpc_pc = "loop"
  /\ cursor <= Len(session_mgmt_pkt_list)
  /\ LET sm_pkt == session_mgmt_pkt_list[cursor] IN
       IF SenderIsThisRpc(sm_pkt)
         THEN /\ fatal' = "sender_is_this_rpc"
              /\ UNCHANGED <<cursor, calls, freed, drained>>
         ELSE IF Handler(sm_pkt.pkt_type) = "none"
           THEN /\ fatal' = "pkt_type"
                /\ UNCHANGED <<cursor, calls, freed, drained>>
           ELSE /\ calls' = Append(calls, [handler |-> Handler(sm_pkt.pkt_type),
                                           sm_pkt |-> sm_pkt])
                /\ freed' = freed \cup {sm_pkt.id}
                /\ drained' = Append(drained, sm_pkt.id)
                /\ cursor' = cursor + 1
                /\ fatal' = fatal
  /\ UNCHANGED <<ctorVars, buryVars, dtorVars, seqVars>>
  /\ UNCHANGED <<session_mgmt_ev_counter, session_mgmt_pkt_list, session_mgmt_mutex,
                 rpc_pc, nexus_pc, appended>>

\* The range-for finds its iterator at the list's end and leaves the loop.
HSM_LoopEnd ==
  /\ fatal = "none"
  /\ rpc_pc = "loop"
  /\ cursor > Len(session_mgmt_pkt_list)
  /\ rpc_pc' = "clear"
  /\ UNCHANGED <<ctorVars, buryVars, dtorVars, seqVars>>
  /\ UNCHANGED <<session_mgmt_ev_counter, session_mgmt_pkt_list, session_mgmt_mutex,
                 cursor, nexus_pc, calls, freed, drained, appended, fatal>>

\* HSM_Clear releasing the mutex before the counter is reset.
HSM_Clear_EarlyUnlock ==
  /\ fatal = "none"
  /\ rpc_pc = "clear"
  /\ session_mgmt_pkt_list' = <<>>
  /\ session_mgmt_mutex' = "free"
  /\ cursor' = 1
  /\ rpc_pc' = "reset"
  /\ UNCHANGED <<ctorVars, buryVars, dtorVars, seqVars>>
  /\ UNCHANGED <<session_mgmt_ev_counter, nexus_pc,
                 calls, freed, drained, appended, fatal>>

\* sm_hook.session_mgmt_pkt_list.clear().
HSM_Clear ==
  /\ fatal = "none"
  /\ rpc_pc = "clear"
  /\ session_mgmt_pkt_list' = <<>>
  /\ cursor' = 1
  /\ rpc_pc' = "reset"
  /\ UNCHANGED <<ctorVars, buryVars, dtorVars, seqVars>>
  /\ UNCHANGED <<session_mgmt_ev_counter, session_mgmt_mutex, nexus_pc,
                 calls, freed, drained, appended, fatal>>

\* sm_hook.session_mgmt_ev_counter = 0.
HSM_Reset ==
  /\ fatal = "none"
  /\ rpc_pc = "reset"
  /\ session_mgmt_ev_counter' = 0
  /\ rpc_pc' = "unlock"
  /\ UNCHANGED <<ctorVars, buryVars, dtorVars, seqVars>>
  /\ UNCHANGED <<session_mgmt_pkt_list, session_mgmt_mutex, cursor, nexus_pc,
                 calls, freed, drained, appended, fatal>>

\* sm_hook.session_mgmt_mutex.unlock(); the function returns.
HSM_Unlock ==
  /\ fatal = "none"
  /\ rpc_pc = "unlock"
  /\ session_mgmt_mutex' = "free"
  /\ rpc_pc' = "idle"
  /\ UNCHANGED <<ctorVars, buryVars, dtorVars, seqVars>>
  /\ UNCHANGED <<session_mgmt_ev_counter, session_mgmt_pkt_list, cursor, nexus_pc,
                 calls, freed, drained, appended, fatal>>

handle_session_management ==
  \/ HSM_Assert
  \/ HSM_Lock
  \/ HSM_Iter
  \/ HSM_LoopEnd
  \/ HSM_Clear
  \/ HSM_Reset
  \/ HSM_Unlock

----------------------------------------------------------------------------
(* Rpc::Rpc: the constructor, called on each of two threads with one Nexus *)

Threads == {"t1", "t2"}

\* Most regions one call of init_hugepage_structures registers.
MaxChunks == 2

\* The reserved app_tid.
kInvalidAppTid == 255

kMaxPhyPorts == 4

kMaxNumaNodes == 8

\* The arguments a caller may pass: the Nexus or no Nexus, two app_tids and the
\* reserved one, port and node indices at and below their limits.
CtorArgs ==
  [nexus : {"nullptr", "nexus"},
   app_tid : AppTids \cup {kInvalidAppTid},
   phy_port : {0, kMaxPhyPorts - 1, kMaxPhyPorts},
   numa_node : {0, kMaxNumaNodes - 1, kMaxNumaNodes}]

\* Nexus::app_tid_exists: a registered hook carries this app_tid.
app_tid_exists(app_tid) ==
  \E h \in reg_hooks : args[h].app_tid = app_tid

\* Preconditions without the lookup of the app_tid at the Nexus.
Preconditions_NoLookup(a) ==
  IF uid # 0 THEN "root"
  ELSE IF a.nexus = "nullptr" THEN "nexus"
  ELSE IF a.app_tid = kInvalidAppTid THEN "app_tid"
  ELSE IF a.phy_port >= kMaxPhyPorts THEN "phy_port"
  ELSE IF a.numa_node >= kMaxNumaNodes THEN "numa_node"
  ELSE "none"

\* Preconditions with the port index compared by > instead of >=.
Preconditions_PortOffByOne(a) ==
  IF uid # 0 THEN "root"
  ELSE IF a.nexus = "nullptr" THEN "nexus"
  ELSE IF a.app_tid = kInvalidAppTid \/ app_tid_exists(a.app_tid) THEN "app_tid"
  ELSE IF a.phy_port > kMaxPhyPorts THEN "phy_port"
  ELSE IF a.numa_node >= kMaxNumaNodes THEN "numa_node"
  ELSE "none"

\* Preconditions with the Nexus checked before the user id.
Preconditions_NexusFirst(a) ==
  IF a.nexus = "nullptr" THEN "nexus"
  ELSE IF uid # 0 THEN "root"
  ELSE IF a.app_tid = kInvalidAppTid \/ app_tid_exists(a.app_tid) THEN "app_tid"
  ELSE IF a.phy_port >= kMaxPhyPorts THEN "phy_port"
  ELSE IF a.numa_node >= kMaxNumaNodes THEN "numa_node"
  ELSE "none"

\* The five checks that open the constructor, in their order: the first that
\* fails, or "none".
Preconditions(a) ==
  IF uid # 0 THEN "root"
  ELSE IF a.nexus = "nullptr" THEN "nexus"
  ELSE IF a.app_tid = kInvalidAppTid \/ app_tid_exists(a.app_tid) THEN "app_tid"
  ELSE IF a.phy_port >= kMaxPhyPorts THEN "phy_port"
  ELSE IF a.numa_node >= kMaxNumaNodes THEN "numa_node"
  ELSE "none"

\* Whether the checks reach the call nexus->app_tid_exists(app_tid): the two
\* checks before it have passed and the left operand of || is false.
LookupMade(a) ==
  uid = 0 /\ a.nexus # "nullptr" /\ a.app_tid # kInvalidAppTid

\* The exception each failed check throws.
ExceptionOf(check) ==
  IF check = "root" THEN "runtime_error" ELSE "invalid_argument"

\* The constructor is entered with arguments a and runs its checks.
CtorCheck(t) ==
  /\ ctor_pc[t] = "start"
  /\ \E a \in CtorArgs :
       /\ args' = [args EXCEPT ![t] = a]
       /\ saw_registered' =
            [saw_registered EXCEPT ![t] =
               uid = 0 /\ a.nexus # "nullptr" /\ a.app_tid # kInvalidAppTid
               /\ app_tid_exists(a.app_tid)]
       /\ looked_up' = [looked_up EXCEPT ![t] = LookupMade(a)]
       /\ IF Preconditions(a) = "none"
            THEN /\ ctor_pc' = [ctor_pc EXCEPT ![t] = "transport"]
                 /\ UNCHANGED <<thrown, failed_at>>
            ELSE /\ ctor_pc' = [ctor_pc EXCEPT ![t] = "failed"]
                 /\ thrown' = [thrown EXCEPT ![t] = ExceptionOf(Preconditions(a))]
                 /\ failed_at' = [failed_at EXCEPT ![t] = Preconditions(a)]
  /\ UNCHANGED <<uid, transport, huge_alloc, chunks, reg_hooks, reg_calls>>
  /\ UNCHANGED <<hookVars, fatal, buryVars, dtorVars, seqVars>>

\* transport = new Transport_(app_tid, phy_port).
CtorNewTransport(t) ==
  /\ ctor_pc[t] = "transport"
  /\ transport' = [transport EXCEPT ![t] = "partial"]
  /\ ctor_pc' = [ctor_pc EXCEPT ![t] = "huge_alloc"]
  /\ UNCHANGED <<uid, args, huge_alloc, chunks, reg_hooks, thrown, failed_at,
                 saw_registered, reg_calls>>
  /\ UNCHANGED looked_up
  /\ UNCHANGED <<hookVars, fatal, buryVars, dtorVars, seqVars>>

\* huge_alloc = new HugeAllocator(kInitialHugeAllocSize, numa_node, reg_mr_func,
\* dereg_mr_func): the allocator reserves its initial size as one registered region.
CtorNewHugeAlloc(t) ==
  /\ ctor_pc[t] = "huge_alloc"
  /\ huge_alloc' = [huge_alloc EXCEPT ![t] = "live"]
  /\ chunks' = [chunks EXCEPT ![t] = 1]
  /\ reg_calls' = [reg_calls EXCEPT ![t] = 1]
  /\ ctor_pc' = [ctor_pc EXCEPT ![t] = "init"]
  /\ UNCHANGED <<uid, args, transport, reg_hooks, thrown, failed_at, saw_registered>>
  /\ UNCHANGED looked_up
  /\ UNCHANGED <<hookVars, fatal, buryVars, dtorVars, seqVars>>

\* CtorInitCatch without delete huge_alloc.
CtorInitCatch_NoDelete(t, k) ==
  /\ chunks' = [chunks EXCEPT ![t] = @ + k]
  /\ reg_calls' = [reg_calls EXCEPT ![t] = @ + k]
  /\ thrown' = [thrown EXCEPT ![t] = "runtime_error"]
  /\ failed_at' = [failed_at EXCEPT ![t] = "init_hugepage_structures"]
  /\ ctor_pc' = [ctor_pc EXCEPT ![t] = "failed"]
  /\ UNCHANGED <<huge_alloc, transport>>

\* init_hugepage_structures throws std::runtime_error after the allocator has
\* registered k more regions; the catch block deletes huge_alloc, whose
\* destructor deregisters every region it holds, and throws the error again.
CtorInitCatch(t, k) ==
  /\ huge_alloc' = [huge_alloc EXCEPT ![t] = "deleted"]
  /\ chunks' = [chunks EXCEPT ![t] = 0]
  /\ reg_calls' = [reg_calls EXCEPT ![t] = @ + k]
  /\ thrown' = [thrown EXCEPT ![t] = "runtime_error"]
  /\ failed_at' = [failed_at EXCEPT ![t] = "init_hugepage_structures"]
  /\ ctor_pc' = [ctor_pc EXCEPT ![t] = "failed"]
  /\ UNCHANGED transport

\* The try block: transport->init_hugepage_structures(huge_alloc) registers k
\* regions and returns, or throws.
CtorInit(t) ==
  /\ ctor_pc[t] = "init"
  /\ \E k \in 0..MaxChunks :
       \/ /\ chunks' = [chunks EXCEPT ![t] = @ + k]
          /\ reg_calls' = [reg_calls EXCEPT ![t] = @ + k]
          /\ transport' = [transport EXCEPT ![t] = "ready"]
          /\ ctor_pc' = [ctor_pc EXCEPT ![t] = "register"]
          /\ UNCHANGED <<huge_alloc, thrown, failed_at>>
       \/ CtorInitCatch(t, k)
  /\ UNCHANGED <<uid, args, reg_hooks, saw_registered>>
  /\ UNCHANGED looked_up
  /\ UNCHANGED <<hookVars, fatal, buryVars, dtorVars, seqVars>>

\* Nexus::register_hook: the hook joins the registered hooks.
register_hook(t) ==
  reg_hooks' = reg_hooks \cup {t}

\* sm_hook.app_tid = app_tid; nexus->register_hook(&sm_hook).
CtorRegisterHook(t) ==
  /\ ctor_pc[t] = "register"
  /\ register_hook(t)
  /\ ctor_pc' = [ctor_pc EXCEPT ![t] = "done"]
  /\ UNCHANGED <<uid, args, transport, huge_alloc, chunks, thrown, failed_at,
                 saw_registered, reg_calls>>
  /\ UNCHANGED looked_up
  /\ UNCHANGED <<hookVars, fatal, buryVars, dtorVars, seqVars>>

\* No constructor has been called; the process runs as root or as another user.
InitCtor ==
  /\ uid \in {0, 1000}
  /\ ctor_pc = [t \in Threads |-> "start"]
  /\ args = [t \in Threads |-> "none"]
  /\ transport = [t \in Threads |-> "none"]
  /\ huge_alloc = [t \in Threads |-> "none"]
  /\ chunks = [t \in Threads |-> 0]
  /\ reg_hooks = {}
  /\ thrown = [t \in Threads |-> "none"]
  /\ failed_at = [t \in Threads |-> "none"]
  /\ saw_registered = [t \in Threads |-> FALSE]
  /\ reg_calls = [t \in Threads |-> 0]
  /\ looked_up = [t \in Threads |-> FALSE]

\* Thread t1 has constructed the Rpc with app_tid OwnAppTid; t2 has called nothing.
RpcConstructed ==
  /\ uid = 0
  /\ ctor_pc = [t \in Threads |-> IF t = "t1" THEN "done" ELSE "start"]
  /\ args = [t \in Threads |->
               IF t = "t1"
                 THEN [nexus |-> "nexus", app_tid |-> OwnAppTid, phy_port |-> 0,
                       numa_node |-> 0]
                 ELSE "none"]
  /\ transport = [t \in Threads |-> IF t = "t1" THEN "ready" ELSE "none"]
  /\ huge_alloc = [t \in Threads |-> IF t = "t1" THEN "live" ELSE "none"]
  /\ chunks = [t \in Threads |-> IF t = "t1" THEN 1 ELSE 0]
  /\ reg_hooks = {"t1"}
  /\ thrown = [t \in Threads |-> "none"]
  /\ failed_at = [t \in Threads |-> "none"]
  /\ saw_registered = [t \in Threads |-> FALSE]
  /\ reg_calls = [t \in Threads |-> IF t = "t1" THEN 1 ELSE 0]
  /\ looked_up = [t \in Threads |-> t = "t1"]

----------------------------------------------------------------------------
(* Rpc::~Rpc: the destructor of the Rpc a thread has constructed *)

\* DtorOrder with the two deletes exchanged.
DtorOrder_TransportFirst == <<"transport", "huge_alloc", "session_vec">>

\* The statements of the destructor in their order: delete huge_alloc, delete
\* transport, the loop over session_vec.
DtorOrder == <<"huge_alloc", "transport", "session_vec">>

\* The next statement of the destructor of t's Rpc runs. delete huge_alloc
\* deregisters every region the allocator holds through the transport's
\* dereg_mr_func; the loop over session_vec does nothing with the sessions it
\* finds, and the table goes with the object.
DtorStep(t) ==
  /\ fatal = "none"
  /\ ctor_pc[t] = "done"
  /\ dtor_pc[t] < Len(DtorOrder)
  /\ dtor_pc' = [dtor_pc EXCEPT ![t] = @ + 1]
  /\ LET stmt == DtorOrder[dtor_pc[t] + 1] IN
       /\ huge_alloc' = IF stmt = "huge_alloc"
                          THEN [huge_alloc EXCEPT ![t] = "deleted"] ELSE huge_alloc
       /\ chunks' = IF stmt = "huge_alloc" THEN [chunks EXCEPT ![t] = 0] ELSE chunks
       /\ dereg_dead' = IF stmt = "huge_alloc" /\ chunks[t] > 0 /\ transport[t] = "deleted"
                          THEN [dereg_dead EXCEPT ![t] = TRUE] ELSE dereg_dead
       /\ transport' = IF stmt = "transport"
                         THEN [transport EXCEPT ![t] = "deleted"] ELSE transport
       /\ discarded' = IF stmt = "session_vec" THEN session_vec ELSE discarded
       /\ session_vec' = IF stmt = "session_vec" THEN <<>> ELSE session_vec
  /\ UNCHANGED <<uid, ctor_pc, args, reg_hooks, thrown, failed_at, saw_registered,
                 reg_calls, looked_up>>
  /\ UNCHANGED <<sess, at_thrown, buried, last_call>>
  /\ UNCHANGED <<hookVars, fatal, seqVars>>

\* No destructor has run.
InitDtor ==
  /\ dtor_pc = [t \in Threads |-> 0]
  /\ dereg_dead = [t \in Threads |-> FALSE]
  /\ discarded = <<>>

\* t's Rpc has been constructed and destroyed.
Destroyed(t) == ctor_pc[t] = "done" /\ dtor_pc[t] = Len(DtorOrder)

NextCtor ==
  \E t \in Threads :
    \/ CtorCheck(t)
    \/ CtorNewTransport(t)
    \/ CtorNewHugeAlloc(t)
    \/ CtorInit(t)
    \/ CtorRegisterHook(t)
    \/ DtorStep(t)

----------------------------------------------------------------------------
(* The session table: Rpc::bury_session and the two pointer predicates *)

\* Slots the session table grows to.
MaxSessions == 2

\* The addresses a Session may live at.
Ptrs == {"s1", "s2", "s3"}

Roles == {"kClient", "kServer"}

\* No Session object has been allocated at this address.
Unallocated == [state |-> "unallocated"]

\* The Session object at this address has been deleted.
Freed == [state |-> "freed"]

\* std::find(session_vec.begin(), session_vec.end(), session) != session_vec.end().
InSessionVec(session) ==
  \E i \in 1..Len(session_vec) : session_vec[i] = session

\* is_session_ptr_client without the check of the role.
is_session_ptr_client_NoRoleCheck(session) ==
  IF session = "nullptr" THEN FALSE
  ELSE IF ~InSessionVec(session) THEN FALSE
  ELSE TRUE

is_session_ptr_client(session) ==
  IF session = "nullptr" THEN FALSE
  ELSE IF ~InSessionVec(session) THEN FALSE
  ELSE IF sess[session].role # "kClient" THEN FALSE
  ELSE TRUE

is_session_ptr_server(session) ==
  IF session = "nullptr" THEN FALSE
  ELSE IF ~InSessionVec(session) THEN FALSE
  ELSE IF sess[session].role # "kServer" THEN FALSE
  ELSE TRUE

\* The session's in-flight flag.
is_in_flight(session) == sess[session].in_flight

\* What reading session->role yields: the role of a live Session, anything for
\* a pointer to a deleted or never allocated one.
RoleRead(session) ==
  IF sess[session].state = "live" THEN {sess[session].role} ELSE Roles

\* The connect handshake creates a Session of this Rpc: the next slot of the
\* table holds it, and the session number of its own role's block is that slot's
\* index; the other block carries the number the remote Rpc gave.
CreateSession(p, role, remote_num) ==
  /\ fatal = "none"
  /\ ~at_thrown
  /\ sess[p].state = "unallocated"
  /\ Len(session_vec) < MaxSessions
  /\ sess' = [sess EXCEPT ![p] =
       [state |-> "live", role |-> role, in_flight |-> FALSE,
        client_num |-> IF role = "kClient" THEN Len(session_vec) ELSE remote_num,
        server_num |-> IF role = "kServer" THEN Len(session_vec) ELSE remote_num]]
  /\ session_vec' = Append(session_vec, p)
  /\ last_call' = <<"create_session", p>>
  /\ UNCHANGED <<at_thrown, buried, fatal>>
  /\ UNCHANGED <<hookVars, ctorVars, dtorVars, seqVars>>

\* Another Rpc of the process creates a Session in its own table.
CreateForeignSession(p, role, num, remote_num) ==
  /\ fatal = "none"
  /\ ~at_thrown
  /\ sess[p].state = "unallocated"
  /\ sess' = [sess EXCEPT ![p] =
       [state |-> "live", role |-> role, in_flight |-> FALSE,
        client_num |-> IF role = "kClient" THEN num ELSE remote_num,
        server_num |-> IF role = "kServer" THEN num ELSE remote_num]]
  /\ last_call' = <<"create_foreign_session", p>>
  /\ UNCHANGED <<session_vec, at_thrown, buried, fatal>>
  /\ UNCHANGED <<hookVars, ctorVars, dtorVars, seqVars>>

\* A client session sends a request, or the response to its request arrives.
SetInFlight(p) ==
  /\ fatal = "none"
  /\ ~at_thrown
  /\ sess[p].state = "live"
  /\ sess[p].role = "kClient"
  /\ sess' = [sess EXCEPT ![p].in_flight = ~@]
  /\ last_call' = <<"set_in_flight", p>>
  /\ UNCHANGED <<session_vec, at_thrown, buried, fatal>>
  /\ UNCHANGED <<hookVars, ctorVars, dtorVars, seqVars>>

\* session_vec.at(session_num) = nullptr; delete session.
ClearSlotAndDelete(session, session_num) ==
  IF session_num >= Len(session_vec)
    THEN /\ at_thrown' = TRUE
         /\ UNCHANGED <<session_vec, sess, buried, fatal>>
    ELSE /\ session_vec' = [session_vec EXCEPT ![session_num + 1] = "nullptr"]
         /\ sess' = [sess EXCEPT ![session] = Freed]
         /\ buried' = buried \cup {[ptr |-> session, was |-> sess[session]]}
         /\ UNCHANGED <<at_thrown, fatal>>

Die(assertion) ==
  /\ fatal' = assertion
  /\ UNCHANGED <<session_vec, sess, at_thrown, buried>>

\* bury_session without assert(!is_in_flight(session)).
bury_session_NoInFlightCheck(session) ==
  /\ fatal = "none"
  /\ ~at_thrown
  /\ last_call' = <<"bury_session", session>>
  /\ IF session = "nullptr"
       THEN Die("session != nullptr")
       ELSE \E role \in RoleRead(session) :
              IF role = "kClient"
                THEN IF ~is_session_ptr_client(session)
                       THEN Die("is_session_ptr_client(session)")
                       ELSE ClearSlotAndDelete(session, sess[session].client_num)
                ELSE IF ~is_session_ptr_server(session)
                       THEN Die("is_session_ptr_server(session)")
                       ELSE ClearSlotAndDelete(session, sess[session].server_num)
  /\ UNCHANGED <<hookVars, ctorVars, dtorVars, seqVars>>

\* bury_session indexing the table with the session number of the other block.
bury_session_OtherBlockNum(session) ==
  /\ fatal = "none"
  /\ ~at_thrown
  /\ last_call' = <<"bury_session", session>>
  /\ IF session = "nullptr"
       THEN Die("session != nullptr")
       ELSE \E role \in RoleRead(session) :
              IF role = "kClient"
                THEN IF ~is_session_ptr_client(session)
                       THEN Die("is_session_ptr_client(session)")
                       ELSE IF is_in_flight(session)
                         THEN Die("!is_in_flight(session)")
                         ELSE ClearSlotAndDelete(session, sess[session].server_num)
                ELSE IF ~is_session_ptr_server(session)
                       THEN Die("is_session_ptr_server(session)")
                       ELSE ClearSlotAndDelete(session, sess[session].client_num)
  /\ UNCHANGED <<hookVars, ctorVars, dtorVars, seqVars>>

\* Rpc::bury_session.
bury_session(session) ==
  /\ fatal = "none"
  /\ ~at_thrown
  /\ last_call' = <<"bury_session", session>>
  /\ IF session = "nullptr"
       THEN Die("session != nullptr")
       ELSE \E role \in RoleRead(session) :
              IF role = "kClient"
                THEN IF ~is_session_ptr_client(session)
                       THEN Die("is_session_ptr_client(session)")
                       ELSE IF is_in_flight(session)
                         THEN Die("!is_in_flight(session)")
                         ELSE ClearSlotAndDelete(session, sess[session].client_num)
                ELSE IF ~is_session_ptr_server(session)
                       THEN Die("is_session_ptr_server(session)")
                       ELSE ClearSlotAndDelete(session, sess[session].server_num)
  /\ UNCHANGED <<hookVars, ctorVars, dtorVars, seqVars>>

\* The table of a new Rpc: no slot, no Session.
InitSessions ==
  /\ session_vec = <<>>
  /\ sess = [p \in Ptrs |-> Unallocated]
  /\ at_thrown = FALSE
  /\ buried = {}
  /\ last_call = <<"none", "nullptr">>

NextBury ==
  \/ \E p \in Ptrs, role \in Roles, n \in 0..(MaxSessions - 1) :
       CreateSession(p, role, n)
  \/ \E p \in Ptrs, role \in Roles, n, m \in 0..(MaxSessions - 1) :
       CreateForeignSession(p, role, n, m)
  \/ \E p \in Ptrs : SetInFlight(p)
  \/ \E p \in Ptrs \cup {"nullptr"} : bury_session(p)

----------------------------------------------------------------------------
(* Rpc::generate_start_seq. A uint64_t is four limbs of 16 bits, lowest first *)

\* Calls of generate_start_seq on one Rpc.
MaxDraws == 2

Limbs == 1..4

LimbBits == 16

\* Limb values next_u64 may deliver: no bit, the lowest bit, every other bit,
\* every bit.
LimbValues == {0, 1, 43690, 65535}

\* The values slow_rand.next_u64() may return.
RandValues ==
  {<<a, b, c, d>> : a \in {0, 43690}, b \in {1, 65535}, c \in {0, 65535}, d \in LimbValues}

Zero64 == <<0, 0, 0, 0>>

\* The low 48 bits.
kStartSeqMask == <<65535, 65535, 65535, 0>>

RECURSIVE AndBits(_, _, _)
\* The bitwise AND of the n low bits of a and b.
AndBits(a, b, n) ==
  IF n = 0 THEN 0
  ELSE ((a % 2) * (b % 2)) + 2 * AndBits(a \div 2, b \div 2, n - 1)

\* x & y on uint64_t.
And64(x, y) == [l \in Limbs |-> AndBits(x[l], y[l], LimbBits)]

\* generate_start_seq returning the drawn value as it is.
generate_start_seq_Unmasked(t) ==
  /\ fatal = "none"
  /\ ctor_pc[t] = "done"
  /\ dtor_pc[t] = 0
  /\ slow_rand[t] < MaxDraws
  /\ \E rand \in RandValues :
       /\ rand_drawn' = [rand_drawn EXCEPT ![t] = rand]
       /\ seq_ret' = [seq_ret EXCEPT ![t] = rand]
  /\ slow_rand' = [slow_rand EXCEPT ![t] = @ + 1]
  /\ UNCHANGED <<hookVars, fatal, ctorVars, buryVars, dtorVars>>

\* Rpc::generate_start_seq on t's Rpc: rand = slow_rand.next_u64(), and the
\* return of rand & kStartSeqMask.
generate_start_seq(t) ==
  /\ fatal = "none"
  /\ ctor_pc[t] = "done"
  /\ dtor_pc[t] = 0
  /\ slow_rand[t] < MaxDraws
  /\ \E rand \in RandValues :
       /\ rand_drawn' = [rand_drawn EXCEPT ![t] = rand]
       /\ seq_ret' = [seq_ret EXCEPT ![t] = And64(rand, kStartSeqMask)]
  /\ slow_rand' = [slow_rand EXCEPT ![t] = @ + 1]
  /\ UNCHANGED <<hookVars, fatal, ctorVars, buryVars, dtorVars>>

\* No Rpc has drawn a value.
InitSeq ==
  /\ slow_rand = [t \in Threads |-> 0]
  /\ rand_drawn = [t \in Threads |-> Zero64]
  /\ seq_ret = [t \in Threads |-> Zero64]

\* Each thread has constructed its Rpc, t1 with app_tid 3 and t2 with app_tid 7.
TwoRpcsConstructed ==
  /\ uid = 0
  /\ ctor_pc = [t \in Threads |-> "done"]
  /\ args = [t \in Threads |->
               [nexus |-> "nexus", app_tid |-> IF t = "t1" THEN 3 ELSE 7,
                phy_port |-> 0, numa_node |-> 0]]
  /\ transport = [t \in Threads |-> "ready"]
  /\ huge_alloc = [t \in Threads |-> "live"]
  /\ chunks = [t \in Threads |-> 1]
  /\ reg_hooks = Threads
  /\ thrown = [t \in Threads |-> "none"]
  /\ failed_at = [t \in Threads |-> "none"]
  /\ saw_registered = [t \in Threads |-> FALSE]
  /\ reg_calls = [t \in Threads |-> 1]
  /\ looked_up = [t \in Threads |-> TRUE]

NextSeq ==
  \E t \in Threads : generate_start_seq(t)

----------------------------------------------------------------------------
(* Specifications of the drain *)

InitHook ==
  /\ session_mgmt_ev_counter = 0
  /\ session_mgmt_pkt_list = <<>>
  /\ session_mgmt_mutex = "free"
  /\ rpc_pc = "idle"
  /\ cursor = 1
  /\ nexus_pc = "idle"
  /\ calls = <<>>
  /\ freed = {}
  /\ drained = <<>>
  /\ appended = 0

InitDrain ==
  /\ InitHook
  /\ fatal = "none"
  /\ RpcConstructed
  /\ InitSessions
  /\ InitDtor
  /\ InitSeq

NextDrain(shapes, max) ==
  \/ NexusLock
  \/ NexusPush(shapes, max)
  \/ NexusCount
  \/ NexusUnlock
  \/ handle_session_management

SpecDrain == InitDrain /\ [][NextDrain(FewShapes, MaxPkts)]_vars

SpecGuard == InitDrain /\ [][NextDrain(AllShapes, MaxGuardPkts)]_vars

\* The constructor calls alone: the hook of no Rpc is in use yet.
InitCtorCalls ==
  /\ InitCtor
  /\ InitHook
  /\ InitSessions
  /\ InitDtor
  /\ InitSeq
  /\ fatal = "none"

SpecCtor == InitCtorCalls /\ [][NextCtor]_vars

\* The session table of the constructed Rpc; nothing arrives at its hook.
InitBury ==
  /\ InitSessions
  /\ InitHook
  /\ RpcConstructed
  /\ InitDtor
  /\ InitSeq
  /\ fatal = "none"

SpecBury == InitBury /\ [][NextBury]_vars

\* The drain as the event loop runs it: handle_session_management is called
\* when the counter is seen nonzero, and the Nexus delivers MaxLivePkts packets
\* that pass the drain's assertions.
MaxLivePkts == 2

LiveShapes ==
  {shape \in FewShapes :
     /\ ~SenderIsThisRpc(Packet(0, shape))
     /\ Handler(shape.pkt_type) # "none"}

NexusStep ==
  \/ appended < MaxLivePkts /\ NexusLock
  \/ NexusPush(LiveShapes, MaxLivePkts)
  \/ NexusCount
  \/ NexusUnlock

RpcStep ==
  \/ session_mgmt_ev_counter > 0 /\ HSM_Assert
  \/ HSM_Lock
  \/ HSM_Iter
  \/ HSM_LoopEnd
  \/ HSM_Clear
  \/ HSM_Reset
  \/ HSM_Unlock

NextLive == NexusStep \/ RpcStep

SpecLive ==
  InitDrain /\ [][NextLive]_vars /\ WF_vars(NexusStep) /\ WF_vars(RpcStep)

\* The session table of the constructed Rpc up to and through the Rpc's
\* destructor.
NextLife ==
  \/ dtor_pc["t1"] = 0 /\ NextBury
  \/ DtorStep("t1")

SpecLife == InitBury /\ [][NextLife]_vars

\* generate_start_seq on two constructed Rpcs.
InitSeqCalls ==
  /\ InitHook
  /\ InitSessions
  /\ TwoRpcsConstructed
  /\ InitDtor
  /\ InitSeq
  /\ fatal = "none"

SpecSeq == InitSeqCalls /\ [][NextSeq]_vars

----------------------------------------------------------------------------
(* Claims about the drain *)

\* The number of handler calls made for the packet with this id.
HandledCount(id) ==
  Cardinality({i \in 1..Len(calls) : calls[i].sm_pkt.id = id})

\* The number of places the packet holds in the queue ahead of the loop: the
\* places the drain in progress has not reached, or every place when none runs.
PendingCount(id) ==
  Cardinality({i \in cursor..Len(session_mgmt_pkt_list) :
                 session_mgmt_pkt_list[i].id = id})

IdsOf(list) == [i \in 1..Len(list) |-> list[i].id]

\* C1: under every interleaving of the Nexus's appends with the drain, each
\* packet the Nexus has appended is at any moment either still queued ahead of
\* the loop, exactly once, or has been handled, exactly once: none is removed
\* by the clear without having been handled, none is handled twice.
C1_NoPacketLostOrDoubled ==
  \A id \in 1..appended : HandledCount(id) + PendingCount(id) = 1

\* C1's case: an earlier drain has handled a packet, the Rpc thread has entered
\* the next drain and waits for the lock while the Nexus, holding it, has pushed
\* a further packet.
C1_Witness ==
  /\ rpc_pc = "lock"
  /\ session_mgmt_mutex = "nexus"
  /\ nexus_pc = "count"
  /\ Len(calls) >= 1
  /\ Len(session_mgmt_pkt_list) >= 2

RequesterOf(sm_pkt) ==
  IF sm_pkt.pkt_type \in {"kConnectReq", "kDisconnectReq"}
    THEN sm_pkt.client
    ELSE sm_pkt.server

FromThisRpc(sm_pkt) ==
  /\ sm_pkt.pkt_type \in PktTypes
  /\ RequesterOf(sm_pkt) = [hostname |-> OwnHostname, app_tid |-> OwnAppTid]

\* C9: a queued packet of one of the four kinds whose requester identity is
\* this Rpc's own is never passed to a handler, never freed, never passed over
\* by the loop and never in the queue when it is cleared; the process ends on
\* it with the packet still queued.
C9_SelfPacketIsFatal ==
  /\ \A i \in 1..Len(calls) : ~FromThisRpc(calls[i].sm_pkt)
  /\ \A i \in 1..Len(session_mgmt_pkt_list) :
       FromThisRpc(session_mgmt_pkt_list[i]) =>
         /\ session_mgmt_pkt_list[i].id \notin freed
         /\ rpc_pc \in {"loop", "clear"} => cursor <= i
         /\ rpc_pc # "clear"
  /\ fatal = "sender_is_this_rpc" =>
       /\ cursor <= Len(session_mgmt_pkt_list)
       /\ session_mgmt_pkt_list[cursor].id \notin freed
       /\ HandledCount(session_mgmt_pkt_list[cursor].id) = 0

\* C9's case: the drain has ended the process on a ConnectResp whose server
\* block is this Rpc and whose client block is not.
C9_Witness ==
  /\ fatal = "sender_is_this_rpc"
  /\ session_mgmt_pkt_list[cursor].pkt_type = "kConnectResp"
  /\ session_mgmt_pkt_list[cursor].server = Own
  /\ session_mgmt_pkt_list[cursor].client = Other

ExpectedHandler ==
  [kConnectReq |-> "handle_session_connect_req",
   kConnectResp |-> "handle_session_connect_resp",
   kDisconnectReq |-> "handle_session_disconnect_req",
   kDisconnectResp |-> "handle_session_disconnect_resp"]

\* C10: every handler call is for a packet of one of the four kinds and is the
\* call of that kind's handler; every packet the loop has passed has exactly
\* one call; and the process ends with the assertion of the default case only
\* on a packet of another kind, which has no call.
C10_OneHandlerPerPacket ==
  /\ \A i \in 1..Len(calls) :
       /\ calls[i].sm_pkt.pkt_type \in PktTypes
       /\ calls[i].handler = ExpectedHandler[calls[i].sm_pkt.pkt_type]
  /\ \A id \in 1..appended : HandledCount(id) <= 1
  /\ rpc_pc = "loop" =>
       \A i \in 1..(cursor - 1) : HandledCount(session_mgmt_pkt_list[i].id) = 1
  /\ \A i \in 1..Len(session_mgmt_pkt_list) :
       session_mgmt_pkt_list[i].pkt_type \notin PktTypes =>
         /\ HandledCount(session_mgmt_pkt_list[i].id) = 0
         /\ rpc_pc \in {"loop", "clear"} => cursor <= i
         /\ rpc_pc # "clear"
  /\ fatal = "pkt_type" =>
       /\ session_mgmt_pkt_list[cursor].pkt_type \notin PktTypes
       /\ HandledCount(session_mgmt_pkt_list[cursor].id) = 0

\* C10's case: the Rpc with app_tid 3 has drained one ConnectReq from the
\* client ("other-host", 7): one call of the connect-request handler, the
\* queue empty and the counter 0.
C10_Witness ==
  /\ OwnAppTid = 3
  /\ rpc_pc = "idle"
  /\ Len(calls) = 1
  /\ calls[1].handler = "handle_session_connect_req"
  /\ calls[1].sm_pkt.pkt_type = "kConnectReq"
  /\ calls[1].sm_pkt.client = [hostname |-> "other-host", app_tid |-> 7]
  /\ session_mgmt_pkt_list = <<>>
  /\ session_mgmt_ev_counter = 0
  /\ fatal = "none"

----------------------------------------------------------------------------
(* Claims about bury_session *)

\* C3: a call bury_session(session) ends the process, leaving the table and
\* the sessions as they were and throwing nothing, exactly when session is
\* null, or occupies no slot of this Rpc's table, or is a client session in
\* flight; otherwise it returns, every slot that held the session is empty, and
\* is_session_ptr_client and is_session_ptr_server are then false of it. No
\* session was ever buried as a client session in flight.
C3_BuryFatalExactlyWhen ==
  /\ [][\A p \in Ptrs \cup {"nullptr"} :
          last_call' = <<"bury_session", p>> =>
            IF \/ p = "nullptr"
               \/ ~InSessionVec(p)
               \/ (sess[p].role = "kClient" /\ sess[p].in_flight)
              THEN /\ fatal' # "none"
                   /\ ~at_thrown'
                   /\ session_vec' = session_vec
                   /\ sess' = sess
              ELSE /\ fatal' = "none"
                   /\ ~at_thrown'
                   /\ \A i \in 1..Len(session_vec) :
                        session_vec[i] = p => session_vec'[i] = "nullptr"
                   /\ ~is_session_ptr_client(p)'
                   /\ ~is_session_ptr_server(p)'
                   /\ sess'[p].state = "freed"]_vars
  /\ [](\A b \in buried : ~(b.was.role = "kClient" /\ b.was.in_flight))

\* C3's case: one client session, its request answered, has been buried and
\* its slot is empty; the burial of a second client session, in flight and in
\* the table, has ended the process.
C3_Witness ==
  \E p, q \in Ptrs :
    /\ p # q
    /\ \E b \in buried : b.ptr = p /\ b.was.role = "kClient"
    /\ sess[p].state = "freed"
    /\ session_vec[1] = "nullptr"
    /\ last_call = <<"bury_session", q>>
    /\ fatal = "!is_in_flight(session)"
    /\ session_vec[2] = q
    /\ sess[q].in_flight

----------------------------------------------------------------------------
(* Claims about the constructor *)

PermissionError == "runtime_error"

InvalidArgument == "invalid_argument"

\* Nothing of the constructor's resources exists for thread t.
NothingCreated(t) ==
  /\ transport[t] = "none"
  /\ huge_alloc[t] = "none"
  /\ reg_calls[t] = 0
  /\ t \notin reg_hooks

\* C4: after init_hugepage_structures has failed, nothing the constructor
\* acquired remains: no allocator, no Transport_ object, no hook.
C4_FailedInitLeavesNothing ==
  \A t \in Threads :
    failed_at[t] = "init_hugepage_structures" =>
      /\ huge_alloc[t] # "live"
      /\ transport[t] = "none"
      /\ t \notin reg_hooks

\* C5: after init_hugepage_structures has failed, no region registered by the
\* allocator is still registered, the allocator is gone, and the error has left
\* the constructor.
C5_FailedInitDeregistersAll ==
  \A t \in Threads :
    failed_at[t] = "init_hugepage_structures" =>
      /\ chunks[t] = 0
      /\ huge_alloc[t] = "deleted"
      /\ thrown[t] = "runtime_error"
      /\ ctor_pc[t] = "failed"

\* C5's case: init_hugepage_structures failed after the allocator had
\* registered three regions.
C5_Witness ==
  \E t \in Threads :
    /\ failed_at[t] = "init_hugepage_structures"
    /\ reg_calls[t] = 3
    /\ chunks[t] = 0

\* C6: a constructor call that starts when the Nexus holds a hook with the
\* call's app_tid throws InvalidArgument at its checks and changes no
\* transport, allocator, registered region or hook, nor the other thread's
\* endpoint; it never creates anything afterwards.
C6_SecondSameTidRejected ==
  /\ [][\A t \in Threads :
          (/\ ctor_pc[t] = "start"
           /\ ctor_pc'[t] # "start"
           /\ args'[t].nexus = "nexus"
           /\ \E h \in reg_hooks : args[h].app_tid = args'[t].app_tid)
          => /\ thrown'[t] = InvalidArgument
             /\ ctor_pc'[t] = "failed"
             /\ transport' = transport
             /\ huge_alloc' = huge_alloc
             /\ chunks' = chunks
             /\ reg_hooks' = reg_hooks
             /\ \A h \in Threads \ {t} :
                  args'[h] = args[h] /\ ctor_pc'[h] = ctor_pc[h]]_vars
  /\ [](\A t \in Threads :
          saw_registered[t] => thrown[t] = InvalidArgument /\ NothingCreated(t))

\* C6's case: t1 has constructed the Rpc with app_tid 3, and t2's call with
\* app_tid 3 and otherwise valid arguments has failed.
C6_Witness ==
  /\ ctor_pc["t1"] = "done"
  /\ "t1" \in reg_hooks
  /\ args["t1"].app_tid = 3
  /\ ctor_pc["t2"] = "failed"
  /\ saw_registered["t2"]
  /\ args["t2"] = [nexus |-> "nexus", app_tid |-> 3, phy_port |-> 0, numa_node |-> 0]
  /\ thrown["t2"] = InvalidArgument

\* C7: no two hooks registered at the Nexus carry the same app_tid.
C7_AppTidUnique ==
  \A a, b \in reg_hooks : a # b => args[a].app_tid # args[b].app_tid

\* C8: a call that fails a precondition throws the error of that
\* precondition, PermissionError without root and InvalidArgument for a null
\* Nexus, a reserved or registered app_tid, a port index or a node index at or
\* above its limit, and has created no transport, no allocator, no registered
\* region and no hook.
C8_PreconditionFailuresAreTyped ==
  \A t \in Threads :
    ctor_pc[t] # "start" =>
      /\ uid # 0 => thrown[t] = PermissionError /\ NothingCreated(t)
      /\ (/\ uid = 0
          /\ \/ args[t].nexus = "nullptr"
             \/ args[t].app_tid = kInvalidAppTid
             \/ saw_registered[t]
             \/ args[t].phy_port >= kMaxPhyPorts
             \/ args[t].numa_node >= kMaxNumaNodes)
         => thrown[t] = InvalidArgument /\ NothingCreated(t)

\* C8's case: while t1's Rpc exists, t2's call with a port index equal to the
\* limit, and nothing else wrong, has failed.
C8_Witness ==
  /\ ctor_pc["t1"] = "done"
  /\ ctor_pc["t2"] = "failed"
  /\ args["t2"] = [nexus |-> "nexus", app_tid |-> 7, phy_port |-> kMaxPhyPorts,
                   numa_node |-> 0]
  /\ args["t1"].app_tid = 3
  /\ thrown["t2"] = InvalidArgument
  /\ failed_at["t2"] = "phy_port"

----------------------------------------------------------------------------
(* Claims about the pointer predicates and the slot bury_session clears *)

\* The session is in a slot of this Rpc's table.
HeldInTable(p) == \E i \in 1..Len(session_vec) : session_vec[i] = p

\* C11: is_session_ptr_client (is_session_ptr_server) is true exactly for a
\* pointer that is not null, sits in a slot of this Rpc's table and has the
\* client (server) role; never both are true of one pointer, and both are false
\* of the null pointer, of a session of another Rpc and of a buried session.
C11_PtrPredicatesExact ==
  \A p \in Ptrs \cup {"nullptr"} :
    /\ is_session_ptr_client(p)
         <=> (p # "nullptr" /\ HeldInTable(p) /\ sess[p].role = "kClient")
    /\ is_session_ptr_server(p)
         <=> (p # "nullptr" /\ HeldInTable(p) /\ sess[p].role = "kServer")
    /\ ~(is_session_ptr_client(p) /\ is_session_ptr_server(p))
    /\ (p = "nullptr" \/ ~HeldInTable(p) \/ (\E b \in buried : b.ptr = p))
         => ~is_session_ptr_client(p) /\ ~is_session_ptr_server(p)

\* C11's case: the table holds a client session, another Rpc holds a client
\* session, and a third address has held a server session that was buried.
C11_Witness ==
  \E p, q, r \in Ptrs :
    /\ is_session_ptr_client(p)
    /\ ~is_session_ptr_server(p)
    /\ sess[q].state = "live" /\ sess[q].role = "kClient" /\ ~HeldInTable(q)
    /\ ~is_session_ptr_client(q)
    /\ sess[r] = Freed
    /\ \E b \in buried : b.ptr = r /\ b.was.role = "kServer"
    /\ ~is_session_ptr_server(r)

\* The session number of the session's own role.
OwnNum(session_rec) ==
  IF session_rec.role = "kClient" THEN session_rec.client_num
  ELSE session_rec.server_num

\* C13: a bury_session that deletes a session finds it in exactly one slot, the
\* slot its own role's session number indexes, sets that slot to null and
\* leaves every other slot as it was.
C13_BuryClearsOnlyOwnSlot ==
  [][\A p \in Ptrs :
       (sess[p].state = "live" /\ sess'[p] = Freed)
       => /\ OwnNum(sess[p]) + 1 \in 1..Len(session_vec)
          /\ session_vec[OwnNum(sess[p]) + 1] = p
          /\ \A j \in 1..Len(session_vec) :
               session_vec[j] = p => j = OwnNum(sess[p]) + 1
          /\ session_vec' = [session_vec EXCEPT ![OwnNum(sess[p]) + 1] = "nullptr"]
          /\ \A q \in Ptrs \ {p} : sess'[q] = sess[q]]_vars

\* C13's case: the session of the second slot, whose other block carries
\* number 0, has been buried while the first slot keeps its session.
C13_Witness ==
  /\ Len(session_vec) = 2
  /\ session_vec[2] = "nullptr"
  /\ session_vec[1] # "nullptr"
  /\ sess[session_vec[1]].state = "live"
  /\ \E b \in buried : OwnNum(b.was) = 1 /\ b.was.client_num # b.was.server_num

----------------------------------------------------------------------------
(* Claims about generate_start_seq *)

\* Bit i of a limb.
Bit(x, i) == (x \div (2 ^ i)) % 2

\* C12: the value generate_start_seq returns has, at every bit, the drawn
\* value's bit where the mask has a bit and no bit elsewhere; a call draws one
\* value from the calling Rpc's slow_rand and touches nothing of another Rpc.
C12_StartSeqIsMasked ==
  /\ [](\A t \in Threads :
          slow_rand[t] > 0 =>
            \A l \in Limbs, i \in 0..(LimbBits - 1) :
              /\ Bit(seq_ret[t][l], i)
                   = Bit(rand_drawn[t][l], i) * Bit(kStartSeqMask[l], i)
              /\ Bit(seq_ret[t][l], i) <= Bit(kStartSeqMask[l], i))
  /\ [][\A t \in Threads :
          slow_rand'[t] # slow_rand[t] =>
            /\ slow_rand'[t] = slow_rand[t] + 1
            /\ \A u \in Threads \ {t} :
                 /\ slow_rand'[u] = slow_rand[u]
                 /\ rand_drawn'[u] = rand_drawn[u]
                 /\ seq_ret'[u] = seq_ret[u]
            /\ UNCHANGED <<hookVars, fatal, ctorVars, buryVars, dtorVars>>]_vars

\* C12's case: one Rpc has drawn a value with bits above and below bit 48 and
\* returned it without the upper ones, the other Rpc has drawn nothing.
C12_Witness ==
  \E t, u \in Threads :
    /\ t # u
    /\ slow_rand[t] = 2
    /\ rand_drawn[t] = <<43690, 1, 65535, 43690>>
    /\ seq_ret[t] = <<43690, 1, 65535, 0>>
    /\ slow_rand[u] = 0

----------------------------------------------------------------------------
(* Claims about the destructor *)

\* C14: the destructor deletes the allocator before the transport: no region
\* is deregistered after the transport is deleted, a deleted transport implies
\* a deleted allocator, and after the destructor no region is registered.
C14_AllocatorBeforeTransport ==
  \A t \in Threads :
    /\ ~dereg_dead[t]
    /\ transport[t] = "deleted" => huge_alloc[t] = "deleted" /\ chunks[t] = 0
    /\ Destroyed(t) => chunks[t] = 0 /\ huge_alloc[t] = "deleted"
                       /\ transport[t] = "deleted"

\* C14's case: an Rpc whose allocator registered three regions has deleted the
\* allocator and still has its transport.
C14_Witness ==
  \E t \in Threads :
    /\ dtor_pc[t] = 1
    /\ reg_calls[t] = 3
    /\ chunks[t] = 0
    /\ huge_alloc[t] = "deleted"
    /\ transport[t] = "ready"

\* C15: after the destructor of an Rpc the Nexus holds no hook of that Rpc.
C15_TeardownUnregistersHook ==
  \A t \in Threads : Destroyed(t) => t \notin reg_hooks

\* C16: whenever the Nexus holds the hook of an Rpc, the Rpc's transport has
\* completed both phases of its initialisation and its allocator exists.
C16_HookImpliesConstructed ==
  \A t \in reg_hooks : transport[t] = "ready" /\ huge_alloc[t] = "live"

\* C17: after the destructor, no session that was in a slot of the table is
\* still live.
C17_TeardownDiscardsSessions ==
  Destroyed("t1") =>
    \A i \in 1..Len(discarded) :
      discarded[i] # "nullptr" => sess[discarded[i]].state # "live"

----------------------------------------------------------------------------
(* Claims about the drain's entry and its liveness *)

\* C18: handle_session_management called with the counter at zero ends the
\* process before it takes the lock and changes nothing of the hook or of what
\* was handled; the drain is past its check only with a counter above zero.
C18_ZeroCounterIsFatal ==
  /\ [][(/\ rpc_pc = "idle"
         /\ session_mgmt_ev_counter = 0
         /\ (rpc_pc' # rpc_pc \/ fatal' # fatal))
        => /\ fatal' = "ev_counter"
           /\ rpc_pc' = "idle"
           /\ UNCHANGED <<session_mgmt_ev_counter, session_mgmt_pkt_list,
                          session_mgmt_mutex, calls, freed, drained>>]_vars
  /\ [](rpc_pc \in {"lock", "loop", "clear"} => session_mgmt_ev_counter > 0)
  /\ [](fatal = "ev_counter" => rpc_pc = "idle" /\ session_mgmt_mutex # "rpc")

\* C18's case: the drain was called while the Nexus had pushed a packet under
\* the lock and not yet counted it, and the assertion failed.
C18_Witness ==
  /\ fatal = "ev_counter"
  /\ session_mgmt_ev_counter = 0
  /\ nexus_pc = "count"
  /\ session_mgmt_mutex = "nexus"
  /\ Len(session_mgmt_pkt_list) = 1
  /\ calls = <<>>

\* C19: with appends that push and count under the lock and a drain that is
\* called whenever the counter is nonzero, a queue that is not empty while the
\* lock is free has a nonzero counter, and every appended packet is handled in
\* the end.
C19_EveryAppendedPacketHandled ==
  /\ [](session_mgmt_mutex = "free" /\ session_mgmt_pkt_list # <<>>
          => session_mgmt_ev_counter > 0)
  /\ \A id \in 1..MaxLivePkts : (appended >= id) ~> (HandledCount(id) = 1)

\* C19's case: the second packet was appended after the first drain and a
\* second drain has handled it.
C19_Witness ==
  /\ appended = 2
  /\ HandledCount(1) = 1
  /\ HandledCount(2) = 1
  /\ drained = <<2>>
  /\ rpc_pc = "idle"
  /\ session_mgmt_pkt_list = <<>>

----------------------------------------------------------------------------
(* The order of the constructor's checks *)

\* C20: the checks run in the order user id, Nexus, app_tid, port index, node
\* index, and the first that fails decides the exception; the Nexus is not
\* asked for the app_tid when it is null or the caller is not root.
C20_FirstFailingCheckDecides ==
  \A t \in Threads :
    ctor_pc[t] # "start" =>
      LET a == args[t]
          tid_bad == a.app_tid = kInvalidAppTid \/ saw_registered[t]
      IN /\ uid # 0 => failed_at[t] = "root" /\ thrown[t] = PermissionError
         /\ (uid = 0 /\ a.nexus = "nullptr")
              => failed_at[t] = "nexus" /\ thrown[t] = InvalidArgument
         /\ (uid = 0 /\ a.nexus # "nullptr" /\ tid_bad)
              => failed_at[t] = "app_tid" /\ thrown[t] = InvalidArgument
         /\ (uid = 0 /\ a.nexus # "nullptr" /\ ~tid_bad
             /\ a.phy_port >= kMaxPhyPorts)
              => failed_at[t] = "phy_port" /\ thrown[t] = InvalidArgument
         /\ (uid = 0 /\ a.nexus # "nullptr" /\ ~tid_bad
             /\ a.phy_port < kMaxPhyPorts /\ a.numa_node >= kMaxNumaNodes)
              => failed_at[t] = "numa_node" /\ thrown[t] = InvalidArgument
         /\ (uid # 0 \/ a.nexus = "nullptr") => ~looked_up[t]

\* C20's case: a caller that is not root passed no Nexus, the reserved app_tid
\* and a port and a node index at their limits.
C20_Witness ==
  \E t \in Threads :
    /\ uid # 0
    /\ ctor_pc[t] = "failed"
    /\ args[t] = [nexus |-> "nullptr", app_tid |-> kInvalidAppTid,
                  phy_port |-> kMaxPhyPorts, numa_node |-> kMaxNumaNodes]
    /\ failed_at[t] = "root"
    /\ thrown[t] = PermissionError
    /\ ~looked_up[t]

====
